---- MODULE Spec2Model ----
(***************************************************************************)
(* The searchable-selection widget core of SomeJavaScript: Select           *)
(* (web-components/select/select.js), Typeahead (typeahead.js) and          *)
(* DynamicTypeahead (dynamic-typeahead.js), as one state machine.           *)
(*                                                                          *)
(* Evented (components/evented.js), the listener registry, is modelled     *)
(* beside it on a variable of its own.                                     *)
(*                                                                          *)
(* Entries are heap objects {data, next, prev}: `ents` is the heap, an      *)
(* entry is its index in it.  A record is its label, a sequence of          *)
(* one-character strings.  Each handler is an operator from the widget's    *)
(* state (a record of its fields) to the state it leaves, so that calls     *)
(* between methods compose as in the code.                                  *)
(***************************************************************************)
EXTENDS Integers, Sequences, FiniteSets, TLC

VARIABLES
  variant,                \* "Select" | "Typeahead" | "Dynamic": the class of the instance
  cycle_when_closed,      \* Select.cycle_when_closed
  min_characters,         \* Typeahead.#matches (UNDEF when never assigned)
  handle_min_characters,  \* Typeahead.#handle_min_characters
  store_def, store,       \* Select._store (store_def = FALSE: undefined)
  items_def, items,       \* Select.#items (items_def = FALSE: undefined)
  item,                   \* Select.#item: the selected entry
  active,                 \* Select.#active: the highlighted entry
  is_open,                \* Select.#is_open
  ents,                   \* the heap of entries made by make_store_nodes
  list,                   \* the entries whose <li> is a child of elems.list
  shown,                  \* dropdown_container is attached to document.body
  listener,               \* the number of resize listeners registered on window
  aria_selected,          \* the entries whose <li> has aria-selected = "true"
  css_active,             \* the entries whose <li> has the css class "active"
  activedescendant,       \* the entry whose id is the input's aria-activedescendant
                          \* (NULL: the empty string)
  fn_label_ok,            \* Select.#fn_label is a function
  fn_node_ok,             \* Select.#fn_node is a function
  input,                  \* elems.input.value
  timer,                  \* Core.debounce's closure variable `timeout` is set
  timeouts,               \* the number of timeouts of debounced() the browser holds
  pending,                \* store_fn calls in flight, in the order issued
  listeners               \* Evented.#listeners: for each event type, the handlers
                          \* {callback, once, origin} in the order they were added

vars == <<variant, cycle_when_closed, min_characters, handle_min_characters,
          store_def, store, items_def, items, item, active, is_open, ents, list,
          shown, listener, aria_selected, css_active, activedescendant,
          fn_label_ok, fn_node_ok, input, timer, timeouts, pending, listeners>>

\* The variables of the widget.
select_vars == <<variant, cycle_when_closed, min_characters, handle_min_characters,
                 store_def, store, items_def, items, item, active, is_open, ents, list,
                 shown, listener, aria_selected, css_active, activedescendant,
                 fn_label_ok, fn_node_ok, input, timer, timeouts, pending>>

(* ------------------------------ bounds -------------------------------- *)

MaxStore == 2

MaxBurst == 2

MaxEntries == 3

MaxPending == 2

MaxListeners == 2

(* ----------------------------- constants ------------------------------ *)

NULL == 0

UNDEF == -1

KEY_DOWN == 40

KEY_UP == 38

KEY_ENTER == 13

KEY_ESC == 27

KEY_OTHER == 65

DYNAMIC_MIN_CHARACTERS == 3

RecA == <<"a", "b">>

RecB == <<"B", "c">>

RecC == <<"c">>

Source == <<RecA, RecB, RecC>>

\* The record lists a host or a fetch delegate hands over: the first n records.
RecordLists == {SubSeq(Source, 1, n) : n \in {m \in 0..MaxStore : m <= Len(Source)}}

\* What a user types into the input.
Texts == {<<>>, <<"c">>, <<"a", "b", "c">>}

Keys == {KEY_DOWN, KEY_UP, KEY_ENTER, KEY_ESC, KEY_OTHER}

\* The delegates a host passes to select(), each as the set of records it accepts.
Delegates == {{}, {RecB}, {RecA, RecB}}

\* The threshold a host assigns to min_characters.
HOST_MIN_CHARACTERS == 2

\* The event types, the callbacks and the origins a host of an Evented uses
\* (NO_ORIGIN: the argument is left out).
EventTypes == {"click", "change"}

Callbacks == {"f", "g"}

NO_ORIGIN == "none"

Origins == {NO_ORIGIN, "o"}

(* --------------------------- pure helpers ----------------------------- *)

Range(f) == {f[i] : i \in DOMAIN f}

\* A JavaScript truthiness test of an entry reference (null and undefined are falsy).
Truthy(x) == x > 0

toLowerCase_char(c) == CASE c = "A" -> "a" [] c = "B" -> "b" [] c = "C" -> "c" [] OTHER -> c

toLowerCase(str) == [i \in 1..Len(str) |-> toLowerCase_char(str[i])]

includes(str, sub) ==
  \E k \in 0..(Len(str) - Len(sub)) : \A j \in 1..Len(sub) : str[k + j] = sub[j]

\* fn_label: (item) => item.label || ""
fn_label(data) == data

\* value.length < this.min_characters (a comparison with undefined is false)
below_min(s, value) == s.min_characters # UNDEF /\ Len(value) < s.min_characters

(* ----------------------------- the state ------------------------------ *)

\* The widget's fields as a record, for a handler to work on.  What the handler emits
\* and whether it ends in an uncaught exception are fields of the record it returns:
\* emits holds the details of its 'select-change' events, threw is TRUE after a throw,
\* placed is TRUE once it has set the top, left and width of dropdown_container from
\* the rectangle the input has and the scroll offsets there are when it runs.
Cur ==
  [variant |-> variant, cycle_when_closed |-> cycle_when_closed,
   min_characters |-> min_characters, handle_min_characters |-> handle_min_characters,
   store_def |-> store_def, store |-> store, items_def |-> items_def, items |-> items,
   item |-> item, active |-> active, is_open |-> is_open, ents |-> ents, list |-> list,
   shown |-> shown, listener |-> listener, aria_selected |-> aria_selected,
   css_active |-> css_active, activedescendant |-> activedescendant,
   fn_label_ok |-> fn_label_ok,
   fn_node_ok |-> fn_node_ok, input |-> input, timer |-> timer,
   timeouts |-> timeouts, pending |-> pending, emits |-> <<>>, threw |-> FALSE,
   placed |-> FALSE]

Apply(s) ==
  /\ variant' = s.variant
  /\ cycle_when_closed' = s.cycle_when_closed
  /\ min_characters' = s.min_characters
  /\ handle_min_characters' = s.handle_min_characters
  /\ store_def' = s.store_def
  /\ store' = s.store
  /\ items_def' = s.items_def
  /\ items' = s.items
  /\ item' = s.item
  /\ active' = s.active
  /\ is_open' = s.is_open
  /\ ents' = s.ents
  /\ list' = s.list
  /\ shown' = s.shown
  /\ listener' = s.listener
  /\ aria_selected' = s.aria_selected
  /\ css_active' = s.css_active
  /\ activedescendant' = s.activedescendant
  /\ fn_label_ok' = s.fn_label_ok
  /\ fn_node_ok' = s.fn_node_ok
  /\ input' = s.input
  /\ timer' = s.timer
  /\ timeouts' = s.timeouts
  /\ pending' = s.pending
  /\ UNCHANGED listeners

\* An uncaught TypeError ends the handler with the state as it is.
throw(s) == [s EXCEPT !.threw = TRUE]

(* --------------------------- Select methods --------------------------- *)

\* An item setter that leaves aria-selected of the previous item as it is.
set_item_keeps_mark(s, value) ==
  [s EXCEPT !.item = value,
            !.aria_selected = IF Truthy(value) THEN s.aria_selected \cup {value}
                              ELSE s.aria_selected]

\* set item(value): select.js 148-152
set_item(s, value) ==
  LET cleared == IF Truthy(s.item) THEN s.aria_selected \ {s.item} ELSE s.aria_selected
  IN [s EXCEPT !.item = value,
               !.aria_selected = IF Truthy(value) THEN cleared \cup {value} ELSE cleared]

\* An active setter that leaves the css class of the previous active entry.
set_active_keeps_mark(s, value) ==
  [s EXCEPT !.active = value,
            !.css_active = IF Truthy(value) THEN s.css_active \cup {value}
                           ELSE s.css_active,
            !.activedescendant = IF Truthy(value) THEN value ELSE NULL]

\* set active(value): select.js 165-173
set_active(s, value) ==
  LET cleared == IF Truthy(s.active) THEN s.css_active \ {s.active} ELSE s.css_active
  IN [s EXCEPT !.active = value,
               !.css_active = IF Truthy(value) THEN cleared \cup {value} ELSE cleared,
               !.activedescendant = IF Truthy(value) THEN value ELSE NULL]

\* get label(): this.item && this.fn_label(this.item.data) || ""
label(s) == IF Truthy(s.item) THEN fn_label(s.ents[s.item].data) ELSE <<>>

\* empty(): Dom.empty(this.elems.list); this.items = []
empty(s) == [s EXCEPT !.list = {}, !.items = <<>>, !.items_def = TRUE]

\* refresh without the two toLowerCase calls.
refresh_case_sensitive(s, value) ==
  SelectSeq(s.store, LAMBDA e : includes(fn_label(s.ents[e].data), value))

\* Select.refresh(value): the store entries whose lower-cased label includes the
\* lower-cased value, in store order.
refresh(s, value) ==
  SelectSeq(s.store,
            LAMBDA e : includes(toLowerCase(fn_label(s.ents[e].data)), toLowerCase(value)))

\* fill_loop with the wrap-around dropped: the last entry is linked to itself.
RECURSIVE fill_loop_nowrap(_, _, _)
fill_loop_nowrap(heap, its, i) ==
  IF i > Len(its) THEN heap
  ELSE LET curr == its[i]
           nxt == its[IF i < Len(its) THEN i + 1 ELSE i]
           h1 == [heap EXCEPT ![curr].next = nxt]
           h2 == [h1 EXCEPT ![nxt].prev = curr]
       IN fill_loop_nowrap(h2, its, i + 1)

\* The loop of fill(): curr.next = items[(i + 1) % items.length]; curr.next.prev = curr
RECURSIVE fill_loop(_, _, _)
fill_loop(heap, its, i) ==
  IF i > Len(its) THEN heap
  ELSE LET curr == its[i]
           nxt == its[(i % Len(its)) + 1]
           h1 == [heap EXCEPT ![curr].next = nxt]
           h2 == [h1 EXCEPT ![nxt].prev = curr]
       IN fill_loop(h2, its, i + 1)

\* fill(items, mask): this.items = items, the ring over items, the nodes placed in the list
fill(s, its) ==
  [s EXCEPT !.items = its, !.items_def = TRUE,
            !.ents = fill_loop(s.ents, its, 1),
            !.list = s.list \cup Range(its)]

\* addEventListener with a new function object each time: nothing to deduplicate.
addEventListener_anew(n) == n + 1

\* window.addEventListener("resize", this.resize_handler): the one function object of
\* initialize (select.js 297) is registered at most once.
addEventListener(n) == IF n > 0 THEN n ELSE n + 1

\* window.removeEventListener("resize", this.resize_handler)
removeEventListener(n) == IF n > 0 THEN n - 1 ELSE n

\* close_dropdown()
close_dropdown(s) ==
  [s EXCEPT !.shown = FALSE, !.listener = removeEventListener(s.listener)]

\* update_dropdown_position()
update_dropdown_position(s) ==
  IF s.is_open THEN [s EXCEPT !.placed = TRUE] ELSE s

\* open_dropdown()
open_dropdown(s) ==
  LET s1 == update_dropdown_position([s EXCEPT !.shown = TRUE])
  IN [s1 EXCEPT !.listener = addEventListener(s1.listener)]

\* select_index against the visible set: this.item = i == items.length ? null : items[i]
select_index_visible(s, i) ==
  IF ~s.items_def THEN throw(s)
  ELSE LET s1 == set_item(s, IF i = Len(s.items) THEN NULL
                             ELSE IF i < Len(s.items) THEN s.items[i + 1] ELSE UNDEF)
       IN [s1 EXCEPT !.input = label(s1)]

\* select_index(i), i counted from 0: this.item = i == this.store.length ? null : this.store[i]
select_index(s, i) ==
  IF ~s.store_def THEN throw(s)
  ELSE LET s1 == set_item(s, IF i = Len(s.store) THEN NULL
                             ELSE IF i < Len(s.store) THEN s.store[i + 1] ELSE UNDEF)
       IN IF Truthy(s1.item) /\ ~s1.fn_label_ok THEN throw(s1)
          ELSE [s1 EXCEPT !.input = label(s1)]

\* reset() without the assignment of the label to the input.
reset_keeps_text(s) ==
  LET s1 == set_active(s, NULL)
      s2 == [s1 EXCEPT !.is_open = FALSE]
  IN empty(s2)

\* reset()  (Typeahead.reset adds only a text selection in the input)
reset(s) ==
  LET s1 == set_active(s, NULL)
      s2 == [s1 EXCEPT !.is_open = FALSE]
      s3 == empty(s2)
  IN [s3 EXCEPT !.input = label(s3)]

\* make_store_nodes that appends the new entries to the store it had.
make_store_nodes_appends(s, value) ==
  [s EXCEPT !.ents = s.ents \o [i \in 1..Len(value) |->
                                  [data |-> value[i], next |-> NULL, prev |-> NULL,
                                   posinset |-> i, setsize |-> Len(value)]],
            !.store = s.store \o [i \in 1..Len(value) |-> Len(s.ents) + i],
            !.store_def = TRUE]

\* make_store_nodes(value): one fresh entry per record, next and prev null, its <li>
\* with aria-posinset index + 1 and aria-setsize value.length
make_store_nodes(s, value) ==
  [s EXCEPT !.ents = s.ents \o [i \in 1..Len(value) |->
                                  [data |-> value[i], next |-> NULL, prev |-> NULL,
                                   posinset |-> i, setsize |-> Len(value)]],
            !.store = [i \in 1..Len(value) |-> Len(s.ents) + i],
            !.store_def = TRUE]

\* A store setter that selects the first entry in every class.
set_store_selects(s, value) ==
  LET s1 == make_store_nodes(s, value)
  IN select_index(fill(s1, s1.store), 0)

\* set store(value): Select fills the list and selects the first entry;
\* Typeahead (and DynamicTypeahead, which inherits it) only makes the nodes.
\* make_store_nodes calls this.fn_node(record) for each record, and the fn_node of
\* initialize calls this.fn_label: a TypeError when one of them is no function, before
\* _store is assigned.
set_store(s, value) ==
  IF Len(value) > 0 /\ ~(s.fn_node_ok /\ s.fn_label_ok) THEN throw(s)
  ELSE LET s1 == make_store_nodes(s, value)
       IN IF s.variant = "Select" THEN select_index(fill(s1, s1.store), 0) ELSE s1

\* emit("select-change", { item: this.item.data })
emit(s) == [s EXCEPT !.emits = Append(s.emits, s.ents[s.item].data)]

\* on_li_click_handler without the comparison with the item before.
on_li_click_handler_always_emits(s, it) ==
  LET s3 == close_dropdown(reset(set_item(s, it)))
  IN IF Truthy(s3.item) THEN emit(s3) ELSE throw(s3)

\* on_li_click_handler(item, ev)
on_li_click_handler(s, it) ==
  LET current == s.item
      s1 == set_item(s, it)
      s2 == reset(s1)
      s3 == close_dropdown(s2)
  IN IF s3.item # current
       THEN (IF Truthy(s3.item) THEN emit(s3) ELSE throw(s3))
       ELSE s3

\* A blur handler that commits the highlighted entry instead of dropping it.
on_input_blur_handler_commits(s) ==
  IF Truthy(s.active) THEN on_li_click_handler(s, s.active) ELSE close_dropdown(reset(s))

\* on_input_blur_handler(ev)
on_input_blur_handler(s) == close_dropdown(reset(s))

(* ---------------- the asynchronous part of the handlers --------------- *)

\* DynamicTypeahead.refresh(mask) up to its await: store_fn(mask) is in flight.
issue(s, kind, value) ==
  [s EXCEPT !.pending = Append(s.pending, [kind |-> kind, value |-> value])]

\* Select.on_input_click_handler after `await this.refresh("")`
select_click_cont(s, its) ==
  LET s1 == fill(s, its)
  IN IF Truthy(s1.item) THEN set_active(s1, s1.item) ELSE s1

\* Typeahead.on_input_click_handler after `await this.refresh(value)`
click_cont(s, its, value) ==
  IF Len(its) = 0 THEN [s EXCEPT !.input = value]
  ELSE LET s1 == open_dropdown(fill(s, its))
       IN IF Truthy(s1.item) THEN set_active(s1, s1.item) ELSE s1

\* Typeahead.on_input_input_handler after `await this.refresh(value)`
input_cont(s, its, value) ==
  LET s1 == fill(set_active(s, NULL), its)
  IN IF Len(s1.items) > 0 THEN open_dropdown(s1) ELSE close_dropdown(s1)

\* on_input_click_handler(ev): Select's, and Typeahead's override
on_input_click_handler(s) ==
  IF s.is_open THEN close_dropdown(reset(s))
  ELSE IF s.variant = "Select"
    THEN LET s1 == open_dropdown([s EXCEPT !.is_open = TRUE])
         IN IF ~s1.store_def THEN throw(s1)
            ELSE select_click_cont(s1, refresh(s1, <<>>))
    ELSE LET s1 == [s EXCEPT !.is_open = TRUE]
         IN IF below_min(s1, s1.input) /\ ~s1.handle_min_characters THEN s1
            ELSE LET value == IF Truthy(s1.item) THEN <<>> ELSE s1.input
                 IN IF s1.variant = "Dynamic" THEN issue(s1, "click", value)
                    ELSE IF ~s1.store_def THEN throw(s1)
                    ELSE click_cont(s1, refresh(s1, value), value)

\* on_input_input_handler without the early return of the gate.
on_input_input_handler_ungated(s) ==
  LET value == IF below_min(s, s.input) THEN <<>> ELSE s.input
      s1 == empty(s)
  IN IF s1.variant = "Dynamic" THEN issue(s1, "input", value)
     ELSE IF ~s1.store_def THEN throw(s1)
     ELSE input_cont(s1, refresh(s1, value), value)

\* Typeahead.on_input_input_handler(ev): ev.target.value is the input's text
on_input_input_handler(s) ==
  IF below_min(s, s.input) /\ ~s.handle_min_characters THEN s
  ELSE LET value == IF below_min(s, s.input) THEN <<>> ELSE s.input
           s1 == empty(s)
       IN IF s1.variant = "Dynamic" THEN issue(s1, "input", value)
          ELSE IF ~s1.store_def THEN throw(s1)
          ELSE input_cont(s1, refresh(s1, value), value)

\* The i-th fetch in flight resolves with recs: DynamicTypeahead.refresh assigns the
\* store and returns it, and the handler that awaited it goes on.
on_response(s, i, recs) ==
  LET req == s.pending[i]
      s1 == [s EXCEPT !.pending = SubSeq(s.pending, 1, i - 1)
                                    \o SubSeq(s.pending, i + 1, Len(s.pending))]
      s2 == set_store(s1, recs)
  IN IF s2.threw THEN s2
     ELSE IF req.kind = "click" THEN click_cont(s2, s2.store, req.value)
     ELSE input_cont(s2, s2.store, req.value)

\* nav_target with the two ends of the list swapped when nothing is highlighted.
nav_target_swapped(s, key) ==
  IF ~Truthy(s.active)
    THEN (IF Len(s.items) = 0 THEN UNDEF
          ELSE IF key = KEY_DOWN THEN s.items[Len(s.items)] ELSE s.items[1])
    ELSE (IF key = KEY_DOWN THEN s.ents[s.active].next ELSE s.ents[s.active].prev)

\* The entry an arrow key highlights in the list (select.js 471-475): the first or the
\* last of items when nothing is highlighted, else active.next or active.prev.
nav_target(s, key) ==
  IF ~Truthy(s.active)
    THEN (IF Len(s.items) = 0 THEN UNDEF
          ELSE IF key = KEY_DOWN THEN s.items[1] ELSE s.items[Len(s.items)])
    ELSE (IF key = KEY_DOWN THEN s.ents[s.active].next ELSE s.ents[s.active].prev)

\* on_input_key_down_handler whose Enter commits nothing without a highlighted entry.
on_input_key_down_handler_enter_idle(s, key, shift) ==
  IF shift /\ key = KEY_UP THEN s
  ELSE IF key = KEY_DOWN \/ key = KEY_UP THEN
    IF ~s.is_open /\ s.cycle_when_closed THEN
      IF ~s.store_def THEN throw(s)
      ELSE LET first == IF Len(s.store) > 0 THEN s.store[1] ELSE UNDEF
               next == IF Truthy(s.item)
                         THEN (IF key = KEY_DOWN THEN s.ents[s.item].next
                                                 ELSE s.ents[s.item].prev)
                         ELSE first
           IN on_li_click_handler(s, next)
    ELSE IF ~s.items_def THEN throw(s)
    ELSE IF Len(s.items) = 0 /\ ~s.cycle_when_closed THEN s
    ELSE LET s1 == set_active(s, nav_target(s, key))
         IN IF Truthy(s1.active)
              THEN [s1 EXCEPT !.input = fn_label(s1.ents[s1.active].data)]
              ELSE throw(s1)
  ELSE IF key = KEY_ENTER THEN
    IF ~s.is_open THEN on_input_click_handler(s)
    ELSE IF Truthy(s.active) THEN on_li_click_handler(s, s.active)
    ELSE s
  ELSE IF key = KEY_ESC THEN on_input_blur_handler(s)
  ELSE s

\* on_input_key_down_handler(ev)
on_input_key_down_handler(s, key, shift) ==
  IF shift /\ key = KEY_UP THEN s
  ELSE IF key = KEY_DOWN \/ key = KEY_UP THEN
    IF ~s.is_open /\ s.cycle_when_closed THEN
      IF ~s.store_def THEN throw(s)
      ELSE LET first == IF Len(s.store) > 0 THEN s.store[1] ELSE UNDEF
               next == IF Truthy(s.item)
                         THEN (IF key = KEY_DOWN THEN s.ents[s.item].next
                                                 ELSE s.ents[s.item].prev)
                         ELSE first
           IN on_li_click_handler(s, next)
    ELSE IF ~s.items_def THEN throw(s)
    ELSE IF Len(s.items) = 0 /\ ~s.cycle_when_closed THEN s
    ELSE LET s1 == set_active(s, nav_target(s, key))
         IN IF Truthy(s1.active)
              THEN [s1 EXCEPT !.input = fn_label(s1.ents[s1.active].data)]
              ELSE throw(s1)
  ELSE IF key = KEY_ENTER THEN
    IF ~s.is_open THEN on_input_click_handler(s)
    ELSE IF Truthy(s.active) THEN on_li_click_handler(s, s.active)
    ELSE IF ~s.items_def THEN throw(s)
    ELSE IF Len(s.items) > 0 THEN on_li_click_handler(s, s.items[1])
    ELSE s
  ELSE IF key = KEY_ESC THEN on_input_blur_handler(s)
  ELSE s

\* resize_handler = () => this.close_dropdown()
resize_handler(s) == close_dropdown(s)

\* select(delegate): the index of the first store record the delegate accepts, else
\* store.length, goes to select_index.  A delegate is the set of records it accepts.
select(s, delegate) ==
  IF ~s.store_def THEN throw(s)
  ELSE LET hits == {i \in 1..Len(s.store) : s.ents[s.store[i]].data \in delegate}
           i == IF hits = {} THEN Len(s.store)
                ELSE (CHOOSE h \in hits : \A g \in hits : h <= g) - 1
       IN select_index(s, i)

\* The i-th fetch in flight rejects: `await this.store_fn(mask)` throws in refresh, the
\* await of refresh throws in the handler, and nothing catches it.
on_reject(s, i) ==
  throw([s EXCEPT !.pending = SubSeq(s.pending, 1, i - 1)
                               \o SubSeq(s.pending, i + 1, Len(s.pending))])

\* set fn_label(fn): the function, or whatever else the host assigns, is stored as it is
set_fn_label(s, is_function) == [s EXCEPT !.fn_label_ok = is_function]

\* set fn_node(fn)
set_fn_node(s, is_function) == [s EXCEPT !.fn_node_ok = is_function]

\* set min_characters(value): typeahead.js 52
set_min_characters(s, value) == [s EXCEPT !.min_characters = value]

\* set handle_min_characters(value): typeahead.js 64
set_handle_min_characters(s, value) == [s EXCEPT !.handle_min_characters = value]

(* ---------------------------- Core.debounce --------------------------- *)

\* debounced() without the clearTimeout: every call leaves one more timeout.
debounced_keeps(s) == [s EXCEPT !.timeouts = s.timeouts + 1, !.timer = TRUE]

\* debounced(...args): if (timeout) clearTimeout(timeout); timeout = setTimeout(delayed)
debounced(s) ==
  LET s1 == IF s.timer THEN [s EXCEPT !.timeouts = s.timeouts - 1] ELSE s
  IN [s1 EXCEPT !.timeouts = s1.timeouts + 1, !.timer = TRUE]

\* delayed(): one timeout expires; delegate.apply(this, args); timeout = null
delayed(s) ==
  LET s1 == on_input_input_handler([s EXCEPT !.timeouts = s.timeouts - 1])
  IN [s1 EXCEPT !.timer = FALSE]

(* ------------------------------- Evented ------------------------------ *)

\* #add_listener(type, callback, once, origin): the handler is pushed on the stack of
\* its type (a type without a key has the empty stack).
add_listener(ls, type, callback, is_once, origin) ==
  [ls EXCEPT ![type] = Append(@, [callback |-> callback, once |-> is_once,
                                  origin |-> origin])]

\* The loop of #remove_listener on one stack: the first handler with the callback is
\* spliced out and the method calls itself, until no handler has the callback.
RECURSIVE remove_from(_, _)
remove_from(stack, callback) ==
  IF \E i \in DOMAIN stack : stack[i].callback = callback
    THEN LET i == CHOOSE k \in DOMAIN stack :
                    /\ stack[k].callback = callback
                    /\ \A j \in 1..(k - 1) : stack[j].callback # callback
         IN remove_from(SubSeq(stack, 1, i - 1) \o SubSeq(stack, i + 1, Len(stack)),
                        callback)
    ELSE stack

\* #remove_listener(type, callback)
remove_listener(ls, type, callback) ==
  [ls EXCEPT ![type] = remove_from(ls[type], callback)]

\* The second loop of #dispatch_event, from index i down: the stack it reads is the
\* array #remove_listener splices, so that stack[i] is undefined, and stack[i].once a
\* TypeError, once the removals have made the array shorter than i.
RECURSIVE remove_once(_, _, _)
remove_once(r, type, i) ==
  IF i < 1 THEN r
  ELSE IF i > Len(r.listeners[type]) THEN [r EXCEPT !.threw = TRUE]
  ELSE IF r.listeners[type][i].once
    THEN remove_once([r EXCEPT !.listeners = remove_listener(r.listeners, type,
                                                 r.listeners[type][i].callback)],
                     type, i - 1)
    ELSE remove_once(r, type, i - 1)

\* #dispatch_event(event, origin): the callbacks of the handlers of the type are called
\* in order, but for a handler whose origin is the origin given; then the one-time
\* handlers are removed.  called holds the callbacks in the order they were called.  A
\* callback is taken not to add or remove listeners itself.
dispatch_event(ls, type, origin) ==
  LET stack == ls[type]
      invoked == SelectSeq(stack, LAMBDA h : ~(h.origin # NO_ORIGIN /\ origin = h.origin))
      called == [i \in 1..Len(invoked) |-> invoked[i].callback]
  IN remove_once([listeners |-> ls, called |-> called, threw |-> FALSE],
                 type, Len(stack))

\* Evented.emit(type, data, origin): the event object is made and dispatched.
Evented_emit(ls, type, origin) == dispatch_event(ls, type, origin)

\* on(type, callback, origin)
on(ls, type, callback, origin) == add_listener(ls, type, callback, FALSE, origin)

\* once(type, callback, origin)
once(ls, type, callback, origin) == add_listener(ls, type, callback, TRUE, origin)

\* off(type, handler)
off(ls, type, handler) == remove_listener(ls, type, handler.callback)

(* ------------------------------ actions ------------------------------- *)

Init ==
  /\ variant \in {"Select", "Typeahead", "Dynamic"}
  /\ cycle_when_closed = (variant # "Dynamic")
  /\ min_characters = IF variant = "Dynamic" THEN DYNAMIC_MIN_CHARACTERS ELSE UNDEF
  /\ handle_min_characters = (variant = "Typeahead")
  /\ store_def = FALSE /\ store = <<>>
  /\ items_def = (variant # "Select") /\ items = <<>>
  /\ item = NULL /\ active = NULL /\ is_open = FALSE
  /\ ents = <<>> /\ list = {}
  /\ shown = FALSE /\ listener = 0
  /\ aria_selected = {} /\ css_active = {} /\ activedescendant = NULL
  /\ fn_label_ok = TRUE /\ fn_node_ok = TRUE
  /\ input = <<>> /\ timer = FALSE /\ timeouts = 0 /\ pending = <<>>
  /\ listeners = [type \in EventTypes |-> <<>>]

\* A click on the input.
Click ==
  LET s == on_input_click_handler(Cur)
  IN /\ Len(s.pending) <= MaxPending
     /\ Apply(s)

\* A keydown on the input or the list.
KeyDown ==
  \E key \in Keys, shift \in BOOLEAN :
    LET s == on_input_key_down_handler(Cur, key, shift)
    IN /\ shift => key = KEY_UP
       /\ Len(s.pending) <= MaxPending
       /\ Apply(s)

\* focusout of the input.
Blur ==
  /\ Apply(on_input_blur_handler(Cur))

\* mousedown on the <li> of an entry in the shown list.
LiMouseDown ==
  \E e \in list :
    /\ shown
    /\ Apply(on_li_click_handler(Cur, e))

\* The user edits the text (the input of a Select is read-only): the debounced
\* listener clears the pending timeout and sets a new one.
Input ==
  \E text \in Texts :
    /\ variant # "Select"
    /\ text # input
    /\ Apply(debounced([Cur EXCEPT !.input = text]))

\* The debounce timeout expires: delayed() calls on_input_input_handler.
TimerFire ==
  /\ timeouts > 0
  /\ LET s == delayed(Cur)
     IN /\ Len(s.pending) <= MaxPending
        /\ Apply(s)

\* A fetch resolves, in any order.
Response ==
  \E i \in 1..Len(pending), recs \in RecordLists :
    /\ Len(ents) + Len(recs) <= MaxEntries
    /\ Apply(on_response(Cur, i, recs))

\* The host assigns store.
SetStore ==
  \E recs \in RecordLists :
    /\ Len(ents) + Len(recs) <= MaxEntries
    /\ Apply(set_store(Cur, recs))

\* The host calls select_index(i).
SelectIndex ==
  \E i \in 0..Len(store) :
    /\ Apply(select_index(Cur, i))

\* The host calls select(delegate).
SelectBy ==
  \E delegate \in Delegates :
    /\ Apply(select(Cur, delegate))

\* A fetch rejects, in any order.
Reject ==
  \E i \in 1..Len(pending) :
    /\ Apply(on_reject(Cur, i))

\* The host assigns min_characters.
SetMinCharacters ==
  /\ variant # "Select"
  /\ Apply(set_min_characters(Cur, HOST_MIN_CHARACTERS))

\* The host assigns handle_min_characters.
SetHandleMinCharacters ==
  \E value \in BOOLEAN :
    /\ variant # "Select"
    /\ Apply(set_handle_min_characters(Cur, value))

\* The window is resized while the listener is registered.
Resize ==
  /\ listener > 0
  /\ Apply(resize_handler(Cur))

Next ==
  \/ Click
  \/ KeyDown
  \/ Blur
  \/ LiMouseDown
  \/ Input
  \/ TimerFire
  \/ Response
  \/ SetStore
  \/ SelectIndex
  \/ SelectBy
  \/ Reject
  \/ Resize

Spec == Init /\ [][Next]_vars

\* The host assigns fn_label.
SetFnLabel ==
  \E is_function \in BOOLEAN :
    /\ Apply(set_fn_label(Cur, is_function))

\* The host assigns fn_node.
SetFnNode ==
  \E is_function \in BOOLEAN :
    /\ Apply(set_fn_node(Cur, is_function))

\* The calls of a host that configures the widget and its catalog, before any use.
ConfigNext ==
  \/ SetFnLabel
  \/ SetFnNode
  \/ SetStore
  \/ SelectIndex
  \/ SelectBy

ConfigSpec == Init /\ [][ConfigNext]_vars

\* A Typeahead whose host also configures the minimum-length gate.
GateInit == Init /\ variant = "Typeahead"

GateNext ==
  \/ Click
  \/ KeyDown
  \/ Blur
  \/ LiMouseDown
  \/ Input
  \/ TimerFire
  \/ SetStore
  \/ SelectIndex
  \/ SelectBy
  \/ Resize
  \/ SetMinCharacters
  \/ SetHandleMinCharacters

GateSpec == GateInit /\ [][GateNext]_vars

\* A host registers a persistent listener.
On ==
  \E type \in EventTypes, callback \in Callbacks, origin \in Origins :
    /\ Len(listeners[type]) < MaxListeners
    /\ listeners' = on(listeners, type, callback, origin)
    /\ UNCHANGED select_vars

\* A host registers a one-time listener.
Once ==
  \E type \in EventTypes, callback \in Callbacks, origin \in Origins :
    /\ Len(listeners[type]) < MaxListeners
    /\ listeners' = once(listeners, type, callback, origin)
    /\ UNCHANGED select_vars

\* A host removes a listener with the handler on() or once() returned for it.
Off ==
  \E type \in EventTypes :
    \E i \in DOMAIN listeners[type] :
      /\ listeners' = off(listeners, type, listeners[type][i])
      /\ UNCHANGED select_vars

\* An event is emitted.
Emit ==
  \E type \in EventTypes, origin \in Origins :
    /\ listeners' = Evented_emit(listeners, type, origin).listeners
    /\ UNCHANGED select_vars

EventedNext ==
  \/ On
  \/ Once
  \/ Off
  \/ Emit

EventedSpec == Init /\ [][EventedNext]_vars

(* ------------------------- what the claims read ----------------------- *)

\* The records of a sequence of entries of state s.
DataOf(s, seq) == [i \in 1..Len(seq) |-> s.ents[seq[i]].data]

\* The sequences of distinct entries of the heap.
EntrySeqs ==
  {q \in UNION {[1..n -> DOMAIN ents] : n \in 1..Len(ents)} :
     \A i, j \in DOMAIN q : i # j => q[i] # q[j]}

\* fill(items, mask) is called with a sequence of distinct entries.
Fill ==
  \E its \in EntrySeqs :
    /\ Apply(fill(Cur, its))

\* The catalogs a host assigns and the fills of their entries, in any order.
FillNext ==
  \/ SetStore
  \/ Fill

FillSpec == Init /\ [][FillNext]_vars

\* Following next k times from entry e in heap h (0 once a link is null).
RECURSIVE Follow(_, _, _)
Follow(h, e, k) ==
  IF k = 0 \/ ~Truthy(e) THEN e ELSE Follow(h, h[e].next, k - 1)

\* Entries its form one cycle under next in heap h, in the order of its.
OneCycle(h, its) ==
  LET N == Len(its)
  IN \A i \in 1..N :
       /\ h[its[i]].next = its[(i % N) + 1]
       /\ Follow(h, its[i], N) = its[i]
       /\ \A k \in 1..(N - 1) : Follow(h, its[i], k) # its[i]
       /\ \A k \in 0..N : Follow(h, its[i], k) \in Range(its)

\* k presses of ArrowDown in a row.
RECURSIVE ArrowDowns(_, _)
ArrowDowns(s, k) ==
  IF k = 0 THEN s ELSE ArrowDowns(on_input_key_down_handler(s, KEY_DOWN, FALSE), k - 1)

\* Fetch i in flight can resolve with recs within the heap bound.
CanResolve(i, recs) == i \in 1..Len(pending) /\ Len(ents) + Len(recs) <= MaxEntries

(* -------------------------------- C1 ---------------------------------- *)

\* C1: in the dynamic typeahead a response that arrives after the response of a fetch
\* issued later is discarded: once the later fetch has resolved, store and items hold
\* the records of its response, and they still hold exactly those records when the
\* response of the earlier fetch has arrived.
C1_StaleResponseDiscarded ==
  \A i, j \in 1..Len(pending), early, late \in RecordLists :
    (/\ variant = "Dynamic"
     /\ i < j
     /\ Len(ents) + Len(early) + Len(late) <= MaxEntries)
    => LET s1 == on_response(Cur, j, late)
           s2 == on_response(s1, i, early)
       IN DataOf(s2, s2.store) = late

(* -------------------------------- C2 ---------------------------------- *)

\* C2: in every reachable state of the three variants active is null or an entry of
\* the visible set (items).
C2_ActiveInVisible ==
  Truthy(active) => (items_def /\ active \in Range(items))

(* -------------------------------- C3 ---------------------------------- *)

\* C3: whenever is_open is false, active is null.
C3_ClosedHasNoActive ==
  ~is_open => ~Truthy(active)

(* -------------------------------- C4 ---------------------------------- *)

\* C4: after fill(items) on a non-empty sequence of N distinct entries, whatever the
\* links were before, next leads from every entry of items back to it in exactly N
\* steps and not earlier, through the entries in the given order, with no null link
\* and no link out of items.
C4_FillMakesOneCycle ==
  \A its \in EntrySeqs :
    LET s2 == fill(Cur, its)
    IN s2.items = its /\ OneCycle(s2.ents, its)

\* A state left by a fill of two entries: they are the visible set and each is the
\* other's next.
C4_Witness ==
  /\ items_def /\ Len(items) = 2 /\ items[1] # items[2]
  /\ ents[items[1]].next = items[2]
  /\ ents[items[2]].next = items[1]
  /\ \E its \in EntrySeqs :
       Len(its) = 2 /\ ents[its[1]].next # its[2] /\ fill(Cur, its).ents[its[1]].next = its[2]

(* -------------------------------- C5 ---------------------------------- *)

\* What a commit of entry e must leave, from the state before it.
Committed(s2, e) ==
  /\ s2.item = e
  /\ ~s2.is_open
  /\ ~s2.threw
  /\ s2.emits = IF e # item THEN <<ents[e].data>> ELSE <<>>

\* C5: a commit (Enter on the active entry, or a primary-button press on an entry of
\* the shown list) sets selected to that entry and closes the widget, and emits one
\* 'select-change' with the new record when the entry is not the previous selected
\* one, and nothing when it is.
C5_CommitSelectsAndNotifies ==
  /\ \A e \in list : shown => Committed(on_li_click_handler(Cur, e), e)
  /\ (shown /\ Truthy(active))
       => Committed(on_input_key_down_handler(Cur, KEY_ENTER, FALSE), active)

(* -------------------------------- C6 ---------------------------------- *)

\* What a step that is no commit must leave of the selection.
SelectionKept(s2) == s2.item = item /\ s2.emits = <<>>

\* C6: a dismiss (Escape keydown or loss of focus) in any state leaves selected
\* unchanged and emits no 'select-change'; so does the opening (the click and the
\* completion of its fetch), so that selected survives any number of open/dismiss
\* cycles.
C6_DismissKeepsSelected ==
  /\ SelectionKept(on_input_blur_handler(Cur))
  /\ SelectionKept(on_input_key_down_handler(Cur, KEY_ESC, FALSE))
  /\ ~on_input_blur_handler(Cur).is_open
  /\ SelectionKept(on_input_click_handler(Cur))
  /\ \A i \in 1..Len(pending), recs \in RecordLists :
       (CanResolve(i, recs) /\ pending[i].kind = "click")
         => SelectionKept(on_response(Cur, i, recs))

\* An open widget with a selection and a different highlighted entry, which a dismiss
\* closes with the selection kept.
C6_Witness ==
  /\ is_open /\ Truthy(item) /\ Truthy(active) /\ active # item
  /\ LET s2 == on_input_blur_handler(Cur)
     IN ~s2.is_open /\ s2.item = item /\ s2.active = NULL /\ s2.input = label(Cur)

(* -------------------------------- C7 ---------------------------------- *)

\* The position of entry e in sequence seq (0 when it is not in it).
IndexOf(seq, e) == IF \E i \in DOMAIN seq : seq[i] = e
                     THEN CHOOSE i \in DOMAIN seq : seq[i] = e ELSE 0

\* C7: while open with a non-empty visible set, ArrowDown highlights the first visible
\* entry when active is null and else the entry after active in visible order,
\* wrapping; ArrowUp the last one, else the entry before; the widget stays open,
\* selected is unchanged and nothing is emitted.
C7_NavigateOpenList ==
  (is_open /\ items_def /\ Len(items) > 0)
    => LET N == Len(items)
           p == IndexOf(items, active)
           down == on_input_key_down_handler(Cur, KEY_DOWN, FALSE)
           up == on_input_key_down_handler(Cur, KEY_UP, FALSE)
       IN /\ down.active = IF ~Truthy(active) THEN items[1] ELSE items[(p % N) + 1]
          /\ up.active = IF ~Truthy(active) THEN items[N] ELSE items[((p + N - 2) % N) + 1]
          /\ down.is_open /\ up.is_open
          /\ SelectionKept(down) /\ SelectionKept(up)

(* -------------------------------- C8 ---------------------------------- *)

\* C8 as stated: from active = null in an open widget with N visible entries, N
\* presses of ArrowDown leave active on the first entry.
C8_NPressesReturnToFirst ==
  (is_open /\ items_def /\ Len(items) > 0 /\ active = NULL)
    => ArrowDowns(Cur, Len(items)).active = items[1]

\* C8 amended: from active = null in an open widget with N visible entries, the k-th
\* press of ArrowDown highlights the k-th visible entry for k = 1..N, and press N + 1
\* wraps to the first entry.
C8_NPlusOnePressesReturnToFirst ==
  (is_open /\ items_def /\ Len(items) > 0 /\ active = NULL)
    => /\ \A k \in 1..Len(items) : ArrowDowns(Cur, k).active = items[k]
       /\ ArrowDowns(Cur, Len(items) + 1).active = items[1]
       /\ ArrowDowns(Cur, Len(items) + 1).is_open

\* An open widget with two visible entries and nothing highlighted: two presses end
\* on the second entry, the third on the first.
C8_Witness ==
  /\ is_open /\ items_def /\ Len(items) = 2 /\ active = NULL
  /\ ArrowDowns(Cur, 2).active = items[2]
  /\ ArrowDowns(Cur, 3).active = items[1]
  /\ items[1] # items[2]

(* -------------------------------- C9 ---------------------------------- *)

\* What the completed activation must leave: open, the full catalog visible in
\* catalog order, active the selected entry or null.
Activated(s2) ==
  /\ s2.is_open
  /\ s2.items_def /\ s2.items = s2.store
  /\ s2.active = IF Truthy(s2.item) THEN s2.item ELSE NULL

\* C9: when a closed widget is activated (click, or Enter while closed) and its
\* refresh completes, is_open is true, the refresh was issued with the empty query, so
\* that the visible set is the full catalog in catalog order, and active is selected,
\* or null when nothing is selected; in Select, Typeahead and DynamicTypeahead.
C9_ActivateOpensFullCatalog ==
  /\ (~is_open /\ store_def /\ variant # "Dynamic")
       => /\ Activated(on_input_click_handler(Cur))
          /\ Activated(on_input_key_down_handler(Cur, KEY_ENTER, FALSE))
  /\ \A i \in 1..Len(pending), recs \in RecordLists :
       (CanResolve(i, recs) /\ pending[i].kind = "click")
         => (pending[i].value = <<>> /\ Activated(on_response(Cur, i, recs)))

(* -------------------------------- C10 --------------------------------- *)

\* C10: with cycle_when_closed enabled and the widget closed, ArrowDown (ArrowUp)
\* commits selected.next (selected.prev), or the first catalog entry when nothing is
\* selected; the widget stays closed with active null, and 'select-change' is emitted
\* exactly when the selection changed.
C10_ClosedCycleCommits ==
  \A key \in {KEY_DOWN, KEY_UP} :
    (cycle_when_closed /\ ~is_open /\ store_def)
      => LET s2 == on_input_key_down_handler(Cur, key, FALSE)
             target == IF Truthy(item)
                         THEN (IF key = KEY_DOWN THEN ents[item].next ELSE ents[item].prev)
                         ELSE (IF Len(store) > 0 THEN store[1] ELSE UNDEF)
         IN /\ s2.item = target
            /\ ~s2.is_open /\ s2.active = NULL
            /\ ~s2.threw
            /\ (s2.item # item) <=> (Len(s2.emits) = 1)
            /\ \A n \in 1..Len(s2.emits) : s2.emits[n] = s2.ents[s2.item].data

(* -------------------------------- C11 --------------------------------- *)

\* C11: cycle_when_closed is enabled in the Select and disabled in the Typeahead and
\* the DynamicTypeahead, where an ArrowUp or ArrowDown keydown while is_open is false
\* changes neither selected nor active and emits nothing.
C11_FilteredClosedArrowsNoOp ==
  /\ cycle_when_closed = (variant = "Select")
  /\ \A key \in {KEY_DOWN, KEY_UP} :
       (variant # "Select" /\ ~is_open)
         => LET s2 == on_input_key_down_handler(Cur, key, FALSE)
            IN s2.item = item /\ s2.active = active /\ s2.emits = <<>>

(* -------------------------------- C12 --------------------------------- *)

\* C12: with an empty catalog and an empty visible set, open or closed, in every
\* variant, an ArrowUp or ArrowDown keydown changes none of active, selected and
\* is_open, emits nothing and raises no error.
C12_EmptyArrowsNoOp ==
  \A key \in {KEY_DOWN, KEY_UP} :
    (store_def /\ Len(store) = 0 /\ items_def /\ Len(items) = 0)
      => LET s2 == on_input_key_down_handler(Cur, key, FALSE)
         IN /\ s2.active = active /\ s2.item = item /\ s2.is_open = is_open
            /\ s2.emits = <<>>
            /\ ~s2.threw

(* -------------------------------- C13 --------------------------------- *)

\* The store of s2 is made of entries that were not in the heap before, one per record
\* of recs, in order.
FreshCatalog(s2, recs) ==
  /\ s2.store_def
  /\ DataOf(s2, s2.store) = recs
  /\ \A i \in DOMAIN s2.store : s2.store[i] > Len(ents)
  /\ \A i, j \in DOMAIN s2.store : i # j => s2.store[i] # s2.store[j]

\* C13 as stated: in the three variants, assigning store replaces the catalog with
\* fresh entries for the records and makes the first of them selected (null for an
\* empty record list).
C13_StoreSelectsFirst ==
  \A recs \in RecordLists :
    (Len(ents) + Len(recs) <= MaxEntries)
      => LET s2 == set_store(Cur, recs)
         IN /\ FreshCatalog(s2, recs)
            /\ s2.item = IF Len(recs) = 0 THEN NULL ELSE s2.store[1]

\* C13 amended: assigning store replaces the catalog with fresh entries for the
\* records; in the Select it makes the first of them selected (null for an empty
\* record list), in the Typeahead and the DynamicTypeahead it leaves selected as it
\* was.
C13_StoreSelectsFirstInSelect ==
  \A recs \in RecordLists :
    (Len(ents) + Len(recs) <= MaxEntries)
      => LET s2 == set_store(Cur, recs)
         IN /\ FreshCatalog(s2, recs)
            /\ variant = "Select" => s2.item = IF Len(recs) = 0 THEN NULL ELSE s2.store[1]
            /\ variant # "Select" => s2.item = item

\* A Typeahead with a selection whose store is assigned a non-empty record list: the
\* selection stays, and is no entry of the new catalog.
C13_Witness ==
  /\ variant = "Typeahead" /\ Truthy(item)
  /\ \E recs \in RecordLists :
       /\ Len(recs) > 0 /\ Len(ents) + Len(recs) <= MaxEntries
       /\ LET s2 == set_store(Cur, recs)
          IN s2.item = item /\ s2.store[1] # item /\ DataOf(s2, s2.store) = recs

(* -------------------------------- C14 --------------------------------- *)

\* C14 as stated: select_index(i) with i the length of the visible set, and
\* select(delegate) with a delegate no record satisfies, make selected null and the
\* input text empty; select_index(i) with 0 <= i < length selects the i-th entry.
C14_SelectIndexAtVisibleLength ==
  (store_def /\ items_def)
    => /\ LET s2 == select_index(Cur, Len(items))
          IN s2.item = NULL /\ s2.input = <<>>
       /\ \A i \in 0..(Len(items) - 1) : select_index(Cur, i).item = items[i + 1]
       /\ \A d \in Delegates :
            (\A e \in Range(store) : ents[e].data \notin d)
              => (select(Cur, d).item = NULL /\ select(Cur, d).input = <<>>)

\* C14 amended: select_index(i) with i the length of the catalog, and select(delegate)
\* with a delegate no record satisfies, make selected null and the input text empty;
\* select_index(i) with 0 <= i < length selects the i-th catalog entry and shows its
\* label.
C14_SelectIndexAtCatalogLength ==
  store_def
    => /\ LET s2 == select_index(Cur, Len(store))
          IN s2.item = NULL /\ s2.input = <<>> /\ ~s2.threw
       /\ \A i \in 0..(Len(store) - 1) :
            LET s2 == select_index(Cur, i)
            IN s2.item = store[i + 1] /\ s2.input = ents[store[i + 1]].data /\ ~s2.threw
       /\ \A d \in Delegates :
            (\A e \in Range(store) : ents[e].data \notin d)
              => (select(Cur, d).item = NULL /\ select(Cur, d).input = <<>>)

\* A catalog of two entries, one selected, and an empty visible set: index 2 and a
\* delegate that accepts nothing clear the selection, index 0 selects the first entry.
C14_Witness ==
  /\ store_def /\ Len(store) = 2 /\ Truthy(item)
  /\ items_def /\ Len(items) = 0
  /\ select_index(Cur, 2).item = NULL
  /\ select_index(Cur, 0).item = store[1]
  /\ select(Cur, {}).item = NULL /\ select(Cur, {}).input = <<>>

(* -------------------------------- C15 --------------------------------- *)

\* The letter of a character, whatever its case.
LetterOf(c) == IF c \in {"a", "A"} THEN 1 ELSE IF c \in {"b", "B"} THEN 2
               ELSE IF c \in {"c", "C"} THEN 3 ELSE 4

\* Label lbl contains text, case ignored.
ContainsCI(lbl, text) ==
  \E k \in 1..(Len(lbl) - Len(text) + 1) :
    \A j \in 1..Len(text) : LetterOf(lbl[k + j - 1]) = LetterOf(text[j])

\* The texts refresh is called with.
QueryTexts == Texts \cup {<<"C">>, <<"b", "c">>, <<"A", "b">>, <<"c", "a">>}

\* C15: the local refresh(text) returns exactly the catalog entries whose label
\* contains text, case ignored, in catalog order; refresh("") returns the whole
\* catalog in its order.
C15_RefreshIsTheMatches ==
  (store_def /\ variant # "Dynamic")
    => /\ \A text \in QueryTexts :
            LET r == refresh(Cur, text)
            IN /\ \A e \in Range(r) : e \in Range(store) /\ ContainsCI(ents[e].data, text)
               /\ \A e \in Range(store) : ContainsCI(ents[e].data, text) => e \in Range(r)
               /\ \A a, b \in DOMAIN r : a < b => IndexOf(store, r[a]) < IndexOf(store, r[b])
       /\ refresh(Cur, <<>>) = store

\* A catalog of two entries of which a text in the other case matches only the second.
C15_Witness ==
  /\ store_def /\ variant # "Dynamic" /\ Len(store) = 2
  /\ refresh(Cur, <<"b", "c">>) = <<store[2]>>
  /\ refresh(Cur, <<"c", "a">>) = <<>>

(* -------------------------------- C16 --------------------------------- *)

\* Two fetches with the same query are in flight and can both resolve with recs.
TwoSameFetches(recs) ==
  /\ variant = "Dynamic" /\ Len(pending) = 2
  /\ pending[1].value = pending[2].value
  /\ pending[1].kind = "input" /\ pending[2].kind = "input"
  /\ Len(ents) + 2 * Len(recs) <= MaxEntries

\* The local refresh, called again after its result was filled in, returns the same
\* entries in the same order.
LocalRefreshTwice ==
  (store_def /\ variant # "Dynamic")
    => \A text \in QueryTexts :
         LET r1 == refresh(Cur, text)
             s1 == fill(empty(Cur), r1)
         IN refresh(s1, text) = r1

Bursts == UNION {[1..k -> Texts] : k \in 1..MaxBurst}

\* The state after the keystrokes of burst b, each before the timeout of the one
\* before expires.
RECURSIVE Typed(_, _, _)
Typed(s, b, n) ==
  IF n = 0 THEN s ELSE debounced([Typed(s, b, n - 1) EXCEPT !.input = b[n]])

\* C17: at most one timeout of the debounce is pending at any time; a keystroke
\* cancels the pending one and schedules another; a burst of k keystrokes invokes
\* the input handler once, when the one timeout left expires, on the text of the
\* last keystroke, and not before.
C17_DebounceSingleSlot ==
  /\ timeouts <= 1
  /\ timer <=> (timeouts = 1)
  /\ variant # "Select" =>
       \A b \in Bursts :
         LET sk == Typed(Cur, b, Len(b))
             s2 == delayed(sk)
             h == on_input_input_handler([Cur EXCEPT !.input = b[Len(b)]])
         IN /\ sk.timeouts = 1 /\ sk.timer
            /\ sk = [Cur EXCEPT !.input = b[Len(b)], !.timeouts = 1, !.timer = TRUE]
            /\ s2.timeouts = 0 /\ ~s2.timer
            /\ s2 = [h EXCEPT !.timeouts = 0, !.timer = FALSE]

\* A keystroke while a timeout is pending: one timeout is pending after it, and its
\* expiry runs the handler on the new text.
C17_Witness ==
  /\ variant = "Typeahead" /\ timer /\ timeouts = 1 /\ input = <<"c">>
  /\ store_def /\ Len(store) = 2 /\ items # store
  /\ LET sk == Typed(Cur, <<<<>>>>, 1)
     IN /\ sk.timeouts = 1
        /\ delayed(sk).items = store
        /\ delayed(sk).timeouts = 0

(* -------------------------------- C18 --------------------------------- *)

\* C18: with handle_min_characters false, an input event whose text is shorter than
\* min_characters issues no refresh and leaves the visible set, the catalog, active,
\* selected and the overlay as they were before the keystroke.
C18_SuppressKeepsAll ==
  \A text \in Texts :
    (variant # "Select" /\ ~handle_min_characters
       /\ min_characters # UNDEF /\ Len(text) < min_characters)
      => LET s2 == delayed(debounced([Cur EXCEPT !.input = text]))
         IN /\ s2.pending = pending
            /\ s2.items = items /\ s2.items_def = items_def
            /\ s2.store = store /\ s2.store_def = store_def /\ s2.ents = ents
            /\ s2.active = active /\ s2.item = item
            /\ s2.shown = shown /\ s2.is_open = is_open /\ s2.list = list
            /\ s2.listener = listener
            /\ s2.emits = <<>> /\ ~s2.threw

\* A shown list of fetched entries, and a keystroke that leaves one character.
C18_Witness ==
  /\ ~handle_min_characters /\ min_characters = DYNAMIC_MIN_CHARACTERS
  /\ shown /\ items_def /\ Len(items) > 0 /\ input # <<"c">>
  /\ LET s2 == delayed(debounced([Cur EXCEPT !.input = <<"c">>]))
     IN s2.items = items /\ s2.shown /\ s2.pending = pending /\ s2.input = <<"c">>

(* -------------------------------- C19 --------------------------------- *)

\* C19: with handle_min_characters true and min_characters assigned, a refresh
\* triggered while the input text is shorter than min_characters, by typing or by the
\* click that opens, is made with the empty query: the visible set it leaves is the
\* whole catalog.
C19_BelowMinQueriesEmpty ==
  (variant = "Typeahead" /\ handle_min_characters /\ min_characters # UNDEF
     /\ store_def /\ Len(store) > 0)
    => /\ \A text \in Texts :
            Len(text) < min_characters
              => delayed(debounced([Cur EXCEPT !.input = text])).items = store
       /\ (~is_open /\ Len(input) < min_characters)
            => on_input_click_handler(Cur).items = store

(* -------------------------------- C20 --------------------------------- *)

\* What a rejected fetch must leave, s2, of the widget that was in state s0 when the
\* handler that issued it began.
Recovered(s0, s2) ==
  /\ (~s2.is_open /\ ~s2.shown) \/ (s2.items_def /\ s2.items = s0.items)
  /\ Len(s2.emits) > 0
  /\ ~s2.threw

\* The fetch that handler result s1 issued rejects.
RejectIssued(s1) == on_reject(s1, Len(s1.pending))

\* C20: when the fetch of the dynamic typeahead rejects, the dropdown is closed or
\* the visible set is the one from before the refresh, the failure reaches the host as
\* an event, and no unhandled rejection leaves the input or the click handler.
C20_RejectRecovers ==
  variant = "Dynamic"
    => /\ LET s1 == on_input_click_handler(Cur)
          IN Len(s1.pending) > Len(pending) => Recovered(Cur, RejectIssued(s1))
       /\ LET s1 == delayed(Cur)
          IN (timeouts > 0 /\ Len(s1.pending) > Len(pending))
               => Recovered(Cur, RejectIssued(s1))

(* -------------------------------- C21 --------------------------------- *)

\* The arrow key is handled by the branch that moves active in the list.
NavigatesList == ~(~is_open /\ cycle_when_closed)

\* C21: in every state an ArrowUp, ArrowDown or Enter can be handled in, a fetch in
\* flight or not, the next and prev links of the visible entries form one cycle over
\* exactly the visible set, and the link an arrow key follows leads to a visible entry,
\* never to an entry outside the visible set nor to null.
C21_RingAgreesWithVisible ==
  (items_def /\ Len(items) > 0)
    => /\ OneCycle(ents, items)
       /\ \A i \in DOMAIN items : ents[ents[items[i]].next].prev = items[i]
       /\ \A key \in {KEY_DOWN, KEY_UP} :
            NavigatesList => nav_target(Cur, key) \in Range(items)

(* -------------------------------- C22 --------------------------------- *)

\* A response applied to s1 leaves the overlay, the visible set, the catalog and active
\* of s1.
NoEffectOn(s1, s2) ==
  /\ s2.shown = s1.shown
  /\ s2.items = s1.items
  /\ s2.store = s1.store /\ s2.store_def = s1.store_def
  /\ s2.active = s1.active

\* C22: a response that arrives after a dismiss (Escape, blur) or after a commit does
\* not show the overlay again and changes none of the visible set, the catalog and
\* active.
C22_LateResponseIgnored ==
  \A i \in 1..Len(pending), recs \in RecordLists :
    CanResolve(i, recs)
      => /\ LET s1 == on_input_blur_handler(Cur)
            IN NoEffectOn(s1, on_response(s1, i, recs))
         /\ LET s1 == on_input_key_down_handler(Cur, KEY_ESC, FALSE)
            IN NoEffectOn(s1, on_response(s1, i, recs))
         /\ \A e \in list :
              shown => LET s1 == on_li_click_handler(Cur, e)
                       IN NoEffectOn(s1, on_response(s1, i, recs))

(* -------------------------------- C23 --------------------------------- *)

\* Handler result s2 has opened the overlay and set its top, left and width from the
\* input's rectangle.
OpenedInPlace(s2) == (~shown /\ s2.shown) => s2.placed

\* C23: the overlay is placed at the input's rectangle each time it is opened, by a
\* click, by Enter or by typing (at once or when the fetch resolves), and on every
\* resize of the window while it is shown, after which it is still shown.
C23_OverlayPlacedAtAnchor ==
  /\ OpenedInPlace(on_input_click_handler(Cur))
  /\ OpenedInPlace(on_input_key_down_handler(Cur, KEY_ENTER, FALSE))
  /\ timeouts > 0 => OpenedInPlace(delayed(Cur))
  /\ \A i \in 1..Len(pending), recs \in RecordLists :
       CanResolve(i, recs) => OpenedInPlace(on_response(Cur, i, recs))
  /\ (shown /\ listener > 0)
       => (resize_handler(Cur).shown /\ resize_handler(Cur).placed)

(* -------------------------------- C24 --------------------------------- *)

\* C24: at most one resize listener is registered, it is registered exactly while the
\* overlay is shown, whatever the opens and typed refreshes before, and none is
\* registered after a dismiss, a commit or the click that closes.
C24_ResizeListenerFollowsOverlay ==
  /\ listener <= 1
  /\ (listener = 1) <=> shown
  /\ on_input_blur_handler(Cur).listener = 0
  /\ on_input_key_down_handler(Cur, KEY_ESC, FALSE).listener = 0
  /\ is_open => on_input_click_handler(Cur).listener = 0
  /\ (is_open /\ Truthy(active))
       => on_input_key_down_handler(Cur, KEY_ENTER, FALSE).listener = 0
  /\ \A e \in list : shown => on_li_click_handler(Cur, e).listener = 0
  /\ (variant # "Select" /\ timeouts > 0)
       => LET s2 == delayed(Cur) IN s2.listener = IF s2.shown THEN 1 ELSE 0

\* A Typeahead whose list is shown, with its listener, and a typed refresh that opens
\* it once more: one listener stays, and a dismiss removes it.
C24_Witness ==
  /\ variant = "Typeahead" /\ shown /\ listener = 1 /\ timeouts > 0
  /\ delayed(Cur).shown /\ delayed(Cur).listener = 1
  /\ on_input_blur_handler(delayed(Cur)).listener = 0

(* -------------------------------- C25 --------------------------------- *)

\* C25: at most one entry has aria-selected = "true", and it is the selected entry
\* whenever there is one; the item setter removes the marker of the previous selected
\* entry when it marks another.
C25_OneSelectedMarker ==
  /\ Cardinality(aria_selected) <= 1
  /\ Truthy(item) => aria_selected = {item}
  /\ \A e \in DOMAIN ents : set_item(Cur, e).aria_selected = {e}
  /\ set_item(Cur, NULL).aria_selected = {}

\* A selected, marked entry and another entry that the setter moves the marker to.
C25_Witness ==
  /\ Truthy(item) /\ aria_selected = {item}
  /\ \E e \in DOMAIN ents : e # item /\ set_item(Cur, e).aria_selected = {e}

(* -------------------------------- C26 --------------------------------- *)

\* C26: at most one entry has the css class "active", it is the active entry, and the
\* input's aria-activedescendant is the id of the active entry, or empty when active
\* is null.
C26_OneActiveMarker ==
  /\ Cardinality(css_active) <= 1
  /\ css_active = IF Truthy(active) THEN {active} ELSE {}
  /\ activedescendant = IF Truthy(active) THEN active ELSE NULL
  /\ \A e \in DOMAIN ents :
       LET s2 == set_active(Cur, e)
       IN s2.css_active = {e} /\ s2.activedescendant = e

\* An open list with a highlighted entry and an ArrowDown that highlights another one.
C26_Witness ==
  /\ is_open /\ Truthy(active) /\ css_active = {active} /\ activedescendant = active
  /\ LET s2 == on_input_key_down_handler(Cur, KEY_DOWN, FALSE)
     IN /\ Truthy(s2.active) /\ s2.active # active
        /\ s2.css_active = {s2.active} /\ s2.activedescendant = s2.active

(* -------------------------------- C27 --------------------------------- *)

\* C27: every entry of the visible set has aria-posinset equal to its position in the
\* visible set, counted from 1, and aria-setsize equal to the size of the visible set.
C27_PositionInVisibleSet ==
  items_def
    => \A k \in DOMAIN items :
         ents[items[k]].posinset = k /\ ents[items[k]].setsize = Len(items)

(* -------------------------------- C28 --------------------------------- *)

\* C28: when the response of a fetch is applied, the catalog is made of new entries
\* for the returned records, none of them an entry of the catalog before, the visible
\* set is the new catalog in the returned order, and next and prev are one cycle over
\* exactly those entries in that order.
C28_ResponseReplacesCatalog ==
  \A i \in 1..Len(pending), recs \in RecordLists :
    CanResolve(i, recs)
      => LET s2 == on_response(Cur, i, recs)
         IN /\ FreshCatalog(s2, recs)
            /\ Range(s2.store) \cap Range(store) = {}
            /\ s2.items_def /\ s2.items = s2.store
            /\ OneCycle(s2.ents, s2.items)

(* -------------------------------- C29 --------------------------------- *)

\* C29: a click on the input of a closed widget leaves it open with the overlay shown
\* once its refresh is done, a click on the input of an open one leaves it closed with
\* the overlay hidden, and two clicks in a row on a closed widget leave it closed with
\* selected as it was; in the three variants.
C29_PressToggles ==
  LET s1 == on_input_click_handler(Cur)
  IN /\ (~is_open /\ store_def /\ variant # "Dynamic") => (s1.is_open /\ s1.shown)
     /\ (~is_open /\ variant = "Dynamic")
          => /\ Len(s1.pending) > Len(pending)
             /\ \A recs \in RecordLists :
                  (Len(ents) + Len(recs) <= MaxEntries)
                    => LET s2 == on_response(s1, Len(s1.pending), recs)
                       IN s2.is_open /\ s2.shown
     /\ is_open => (~s1.is_open /\ ~s1.shown)
     /\ ~is_open
          => LET s2 == on_input_click_handler(s1)
             IN ~s2.is_open /\ ~s2.shown /\ s2.item = item

(* -------------------------------- C30 --------------------------------- *)

\* C30: a widget whose fn_label or fn_node is no function does not exist: the setter
\* rejects the value, so that no store assignment and no selection by index is the
\* first operation to fail because of it.
C30_MissingFnRejected ==
  /\ set_fn_label(Cur, FALSE).threw /\ set_fn_label(Cur, FALSE).fn_label_ok
  /\ set_fn_node(Cur, FALSE).threw /\ set_fn_node(Cur, FALSE).fn_node_ok
  /\ fn_label_ok /\ fn_node_ok
  /\ \A recs \in RecordLists :
       (Len(ents) + Len(recs) <= MaxEntries) => ~set_store(Cur, recs).threw
  /\ \A i \in 0..Len(store) : store_def => ~select_index(Cur, i).threw

(* -------------------------------- C31 --------------------------------- *)

\* C31: in every reachable state of the three variants the overlay is shown exactly
\* when is_open is true.
C31_OverlayIffOpen ==
  shown <=> is_open

(* -------------------------------- C32 --------------------------------- *)

\* C32: in every reachable state selected is null or an entry of the current catalog.
C32_SelectedInCatalog ==
  item = NULL \/ (store_def /\ item \in Range(store))

(* -------------------------------- C33 --------------------------------- *)

\* C33: Enter while open with nothing highlighted commits the first visible entry when
\* the visible set is not empty (selected is that entry, the widget is closed, one
\* 'select-change' when it was not selected before) and changes nothing when it is
\* empty; Enter while is_open is false changes no selection, emits nothing and sets
\* is_open.
C33_EnterCommitsFirstVisible ==
  LET s2 == on_input_key_down_handler(Cur, KEY_ENTER, FALSE)
  IN /\ (is_open /\ ~Truthy(active) /\ items_def /\ Len(items) > 0)
          => /\ s2.item = items[1] /\ ~s2.is_open /\ ~s2.shown /\ ~s2.threw
             /\ s2.emits = IF items[1] # item THEN <<ents[items[1]].data>> ELSE <<>>
     /\ (is_open /\ ~Truthy(active) /\ items_def /\ Len(items) = 0)
          => s2 = Cur
     /\ ~is_open => (s2.item = item /\ s2.emits = <<>> /\ s2.is_open)

\* An open list of two entries, none highlighted, the first not the selected one:
\* Enter commits the first.
C33_Witness ==
  /\ is_open /\ active = NULL /\ items_def /\ Len(items) = 2 /\ item # items[1]
  /\ LET s2 == on_input_key_down_handler(Cur, KEY_ENTER, FALSE)
     IN s2.item = items[1] /\ ~s2.is_open /\ Len(s2.emits) = 1

(* -------------------------------- C34 --------------------------------- *)

\* The items k closed ArrowDown presses select, one after the other.
Visited(k) == {ArrowDowns(Cur, j).item : j \in 1..k}

\* A closed Select with a catalog of at least one record.
ClosedSelect == variant = "Select" /\ ~is_open /\ store_def /\ Len(store) >= 1

\* C34 as stated: in a closed Select with a catalog of N >= 1 records, N presses of
\* ArrowDown select every catalog entry once and end on the selection they started
\* from, and an ArrowDown followed by an ArrowUp restores the selection.
C34_ClosedCycleVisitsAll ==
  ClosedSelect
    => /\ Visited(Len(store)) = Range(store)
       /\ ArrowDowns(Cur, Len(store)).item = item
       /\ on_input_key_down_handler(on_input_key_down_handler(Cur, KEY_DOWN, FALSE),
                                    KEY_UP, FALSE).item = item

(* -------------------------------- C35 --------------------------------- *)

\* The input of s2 shows the label of the selected entry, or nothing without one.
ShowsSelected(s2) ==
  s2.input = IF Truthy(s2.item) THEN fn_label(s2.ents[s2.item].data) ELSE <<>>

\* C35: an arrow key in an open list leaves the label of the entry it highlights in the
\* input and selected as it was; after a dismiss (Escape, blur, the click that closes)
\* and after a commit (a press on an entry, Enter, a closed-cycle step) the input holds
\* the label of the selected entry, the empty string when nothing is selected.
C35_TextFollowsActiveThenSelected ==
  /\ \A key \in {KEY_DOWN, KEY_UP} :
       (is_open /\ items_def /\ Len(items) > 0)
         => LET s2 == on_input_key_down_handler(Cur, key, FALSE)
            IN /\ s2.item = item
               /\ Truthy(s2.active) => s2.input = fn_label(s2.ents[s2.active].data)
  /\ ShowsSelected(on_input_blur_handler(Cur))
  /\ ShowsSelected(on_input_key_down_handler(Cur, KEY_ESC, FALSE))
  /\ is_open => ShowsSelected(on_input_click_handler(Cur))
  /\ \A e \in list : shown => ShowsSelected(on_li_click_handler(Cur, e))
  /\ (is_open /\ (Truthy(active) \/ (items_def /\ Len(items) > 0)))
       => ShowsSelected(on_input_key_down_handler(Cur, KEY_ENTER, FALSE))
  /\ \A key \in {KEY_DOWN, KEY_UP} :
       (~is_open /\ cycle_when_closed /\ store_def)
         => ShowsSelected(on_input_key_down_handler(Cur, key, FALSE))

\* An open list whose input shows the label of the highlighted entry, which is not the
\* selected one: a dismiss puts the label of the selected entry back.
C35_Witness ==
  /\ is_open /\ Truthy(item) /\ Truthy(active)
  /\ input = ents[active].data /\ input # ents[item].data
  /\ on_input_blur_handler(Cur).input = ents[item].data
  /\ on_input_blur_handler(Cur).item = item

(* -------------------------------- C36 --------------------------------- *)

\* Handler result s2 has emitted no 'select-change'.
Silent(s2) == s2.emits = <<>>

\* Handler result s2 has emitted at most one 'select-change', with the record of the
\* entry it selected, and only when that entry is not the one selected before.
OnlyOnChange(s2) ==
  s2.emits # <<>> => (s2.item # item /\ s2.emits = <<s2.ents[s2.item].data>>)

\* The key is no commit in the state: Escape and the other keys, an arrow key that moves
\* in the list, Enter while closed.
CommitsNothing(key) ==
  \/ key \in {KEY_ESC, KEY_OTHER}
  \/ key \in {KEY_DOWN, KEY_UP} /\ NavigatesList
  \/ key = KEY_ENTER /\ ~is_open

\* C36: 'select-change' is emitted only by a commit of an entry that is not the
\* selected one, once, with its record; the assignment of store, select(delegate),
\* select_index(i), a dismiss, a navigation in the list, an opening and a refresh
\* (typed, or the completion of a fetch) emit nothing.
C36_ChangeOnlyOnNewCommit ==
  /\ \A recs \in RecordLists :
       (Len(ents) + Len(recs) <= MaxEntries) => Silent(set_store(Cur, recs))
  /\ \A i \in 0..Len(store) : Silent(select_index(Cur, i))
  /\ \A d \in Delegates : Silent(select(Cur, d))
  /\ Silent(on_input_blur_handler(Cur))
  /\ Silent(on_input_click_handler(Cur))
  /\ Silent(resize_handler(Cur))
  /\ timeouts > 0 => Silent(delayed(Cur))
  /\ \A i \in 1..Len(pending), recs \in RecordLists :
       CanResolve(i, recs) => Silent(on_response(Cur, i, recs))
  /\ \A e \in list : OnlyOnChange(on_li_click_handler(Cur, e))
  /\ \A key \in Keys :
       LET s2 == on_input_key_down_handler(Cur, key, FALSE)
       IN /\ OnlyOnChange(s2)
          /\ CommitsNothing(key) => Silent(s2)

\* A shown list with the selected entry and another one: a press on the other emits
\* its record, a press on the selected one nothing.
C36_Witness ==
  /\ shown /\ Truthy(item) /\ item \in list
  /\ on_li_click_handler(Cur, item).emits = <<>>
  /\ \E e \in list :
       e # item /\ on_li_click_handler(Cur, e).emits = <<ents[e].data>>

(* -------------------------------- C37 --------------------------------- *)

\* In heap h prev is the inverse of next on the entries of its.
PrevInvertsNext(h, its) ==
  \A i \in DOMAIN its :
    /\ Truthy(h[its[i]].next) /\ Truthy(h[its[i]].prev)
    /\ h[h[its[i]].next].prev = its[i]
    /\ h[h[its[i]].prev].next = its[i]

\* C37: after fill(items), whatever the links before, prev is the inverse of next on
\* the visible set, and so it is in every reachable state; an ArrowDown followed by an
\* ArrowUp in an open list with an active entry leaves active on the same entry.
C37_PrevInvertsNextOnVisible ==
  /\ items_def => PrevInvertsNext(ents, items)
  /\ \A its \in EntrySeqs : PrevInvertsNext(fill(Cur, its).ents, its)
  /\ (is_open /\ Truthy(active) /\ items_def /\ Len(items) > 0)
       => on_input_key_down_handler(on_input_key_down_handler(Cur, KEY_DOWN, FALSE),
                                    KEY_UP, FALSE).active = active

(* -------------------------------- C38 --------------------------------- *)

\* C38: a Typeahead has min_characters 2 and handle_min_characters true from its
\* initialization on; a typed text of one character is refreshed as the empty query
\* (the whole catalog is the visible set), a typed text of two or more characters
\* filters the catalog.
C38_DefaultMinimumIsTwo ==
  variant = "Typeahead"
    => /\ min_characters = HOST_MIN_CHARACTERS
       /\ handle_min_characters
       /\ \A text \in Texts :
            store_def
              => delayed(debounced([Cur EXCEPT !.input = text])).items
                   = IF Len(text) < HOST_MIN_CHARACTERS THEN store ELSE refresh(Cur, text)

(* -------------------------------- C39 --------------------------------- *)

\* A stack without its i-th handler.
WithoutAt(stack, i) == SubSeq(stack, 1, i - 1) \o SubSeq(stack, i + 1, Len(stack))

\* C39: an emit of a type (without origin) calls the callback of every listener of the
\* type once, in the order of registration, and raises nothing; after it the
\* persistent listeners are all still registered and the one-time listeners are gone;
\* off with the handler of a listener removes that listener and no other.
C39_ListenersKeptAndOnceRemoved ==
  \A type \in EventTypes :
    LET stack == listeners[type]
        r == Evented_emit(listeners, type, NO_ORIGIN)
    IN /\ ~r.threw
       /\ r.called = [i \in 1..Len(stack) |-> stack[i].callback]
       /\ r.listeners = [listeners EXCEPT ![type] = SelectSeq(stack, LAMBDA h : ~h.once)]
       /\ \A i \in DOMAIN stack :
            off(listeners, type, stack[i])
              = [listeners EXCEPT ![type] = WithoutAt(stack, i)]

====
